---- MODULE Spec2Model ----
(***************************************************************************)
(* SparseRandomProjection (anomalib, random_projection.py).                *)
(*                                                                         *)
(* Five specifications over one set of variables:                          *)
(*   SpecJL    _johnson_lindenstrauss_min_dim as a pure function           *)
(*   SpecGen   _sparse_random_matrix, row by row, with the entries         *)
(*   SpecDet   two _sparse_random_matrix calls on one projector            *)
(*   Spec      the projector's lifecycle: sequential fit/transform calls   *)
(*   SpecConc  one fit call and one transform call interleaved             *)
(* Spec and SpecConc keep a tensor's shape and construction progress; the  *)
(* entries of a matrix are the subject of SpecGen and SpecDet.             *)
(***************************************************************************)
EXTENDS Integers, Sequences, FiniteSets, TLC

VARIABLES
    eps,                  \* self.eps
    random_state,         \* self.random_state: <<>> is None, <<s>> the seed s
    n_components,         \* self.n_components: <<>> while unset, <<v>> once set
    estimates,            \* SpecJL: the calls made so far, with their results
    gen,                  \* the _sparse_random_matrix call in progress
    generated,            \* the matrices _sparse_random_matrix has returned
    sparse_random_matrix, \* self.sparse_random_matrix: <<>> while unset, <<v>> once set
    tensors,              \* the live tensor objects, by identity
    allocated,            \* tensor objects created so far
    stored,               \* assignments to self.sparse_random_matrix so far
    embedding,            \* Spec: the embedding passed to the last call, its shape
    outcome,              \* how the last finished fit or transform call ended
    used,                 \* the matrix the last transform multiplied with
    fit_call,             \* SpecConc: the fit call in progress, with its embedding
    transform_call        \* SpecConc: the transform call in progress, with its embedding

config == <<eps, random_state>>
gens == <<gen, generated>>
life == <<sparse_random_matrix, tensors, allocated, stored, embedding, outcome, used,
          fit_call, transform_call>>
vars == <<config, n_components, estimates, gens, life>>

(***************************************************************************)
(* Bounds of the model.                                                    *)
(***************************************************************************)
MaxSamples == 3           \* n_samples ranges over 1..MaxSamples
MaxEstimates == 2         \* SpecJL: calls recorded
MaxFeatures == 3          \* n_features ranges over 0..MaxFeatures
MaxComponents == 2        \* SpecGen, SpecDet: self.n_components in 0..MaxComponents
MaxFits == 2              \* Spec, SpecConc: tensor objects created

(***************************************************************************)
(* Floating point.  A float is m * 10^x with a four-digit mantissa         *)
(* (1000 <= m <= 9999, or m = 0); every operation truncates its result to  *)
(* four digits.  Only non-negative finite values occur.  On the inputs     *)
(* used here the truncated quotient agrees with binary64.                  *)
(***************************************************************************)
RECURSIVE Norm(_, _)
Norm(m, x) ==
    IF m = 0 THEN [m |-> 0, x |-> 0]
    ELSE IF m >= 10000 THEN Norm(m \div 10, x + 1)
    ELSE IF m < 1000 THEN Norm(m * 10, x - 1)
    ELSE [m |-> m, x |-> x]

FromInt(k) == Norm(k, 0)

FMul(a, b) == Norm(a.m * b.m, a.x + b.x)

FDiv(a, b) == Norm((a.m * 10000) \div b.m, a.x - b.x - 4)

\* a - b for a >= b >= 0
FSub(a, b) ==
    IF b.m = 0 THEN a
    ELSE LET d == a.x - b.x
             g == IF d < 4 THEN d ELSE 4
         IN  Norm(a.m * 10^g - (b.m \div 10^(IF d - g < 5 THEN d - g ELSE 5)), a.x - g)

FLess(a, b) ==
    IF a.m = 0 THEN b.m > 0
    ELSE IF b.m = 0 THEN FALSE
    ELSE a.x < b.x \/ (a.x = b.x /\ a.m < b.m)

\* np.log on the sample counts of the model
np_log(n) ==
    CASE n = 1 -> FromInt(0)
      [] n = 2 -> [m |-> 6931, x |-> -4]
      [] n = 3 -> [m |-> 1098, x |-> -3]
      [] n = 4 -> [m |-> 1386, x |-> -3]
      [] n = 5 -> [m |-> 1609, x |-> -3]

(***************************************************************************)
(* .astype(np.int64).  A value below 2^63 is truncated toward zero.  A     *)
(* value of 2^63 or more does not fit: the conversion is undefined, and    *)
(* the result is the most negative int64 on x86-64 and the most positive   *)
(* one on aarch64.  The two extremes are kept symbolic.                    *)
(***************************************************************************)
Exact(v) == [kind |-> "exact", val |-> v]
INT64_MIN == [kind |-> "INT64_MIN", val |-> 0]
INT64_MAX == [kind |-> "INT64_MAX", val |-> 0]

\* f >= 2^63 = 9.223372...e18
FitsInt64(f) == f.x < 15 \/ (f.x = 15 /\ f.m <= 9223)

astype_int64(f) ==
    IF ~FitsInt64(f) THEN {INT64_MIN, INT64_MAX}
    ELSE IF f.x >= 0 THEN {Exact(f.m * 10^f.x)}
    ELSE {Exact(f.m \div 10^(-f.x))}

\* order on int64 values
IntLeq(a, b) ==
    \/ a.kind = "INT64_MIN"
    \/ b.kind = "INT64_MAX"
    \/ a.kind = "exact" /\ b.kind = "exact" /\ a.val <= b.val

(***************************************************************************)
(* _johnson_lindenstrauss_min_dim(n_samples, eps): the set of values the   *)
(* call can return.                                                        *)
(***************************************************************************)
jl_denominator(e) ==
    FSub(FDiv(FMul(e, e), FromInt(2)), FDiv(FMul(FMul(e, e), e), FromInt(3)))

_johnson_lindenstrauss_min_dim(n_samples, e) ==
    astype_int64(FDiv(FMul(FromInt(4), np_log(n_samples)), jl_denominator(e)))

\* eps = k/10
Tenths(k) == Norm(k, -1)
\* eps = 10^-k
TenTo(k) == Norm(1, -k)

SampleCounts == 1..MaxSamples
\* distortion rates of SpecJL: 0.1 .. 0.9, and 1e-10
EpsGrid == {Tenths(k) : k \in 1..9} \cup {TenTo(10)}
\* distortion rates of the projectors
EpsSet == {Tenths(5), Tenths(9)}
RandomStates == {<<>>, <<0>>, <<1>>}


(***************************************************************************)
(* Reals of _sparse_random_matrix.  Every real it computes is a product of *)
(* square roots of integers and their reciprocals; a positive real v is    *)
(* kept exactly, as the fraction <<a, b>> = v^4 (b = 0: infinity).         *)
(***************************************************************************)
ISqrt(a) == CHOOSE r \in 0..a : r * r = a
np_sqrt(n) == <<n * n, 1>>                      \* np.sqrt of an integer
RSqrt(v) == <<ISqrt(v[1]), ISqrt(v[2])>>        \* np.sqrt of a real
RInv(v) == <<v[2], v[1]>>                       \* 1 / v
RMul(v, w) == <<v[1] * w[1], v[2] * w[2]>>
REq(v, w) == v[1] * w[2] = w[1] * v[2]
RIsOne(v) == v[1] = v[2]
\* 0 <= v <= 1, the constraint on a probability
RUnitInterval(v) == v[2] # 0 /\ v[1] <= v[2]

\* line 69
Density(n_features) == RInv(np_sqrt(n_features))
\* Faulty variant: the factor 1 / n_components
DenseScaleLinear(nc) == RInv(<<nc * nc * nc * nc, 1>>)

\* line 75
DenseScale(nc) == RInv(np_sqrt(nc))
\* line 97
SparseScale(density, nc) == RMul(RSqrt(RInv(density)), RInv(np_sqrt(nc)))

(***************************************************************************)
(* A matrix: its rows of signs (-1, 0, +1), its column count, and the      *)
(* factor its signs are multiplied by: entry (i, j) is                     *)
(* entries[i][j] * scale.                                                  *)
(***************************************************************************)
Zeros(nc, nf) ==
    [entries |-> [r \in 1..nc |-> [c \in 1..nf |-> 0]], cols |-> nf, scale |-> <<1, 1>>]

\* torch.distributions.Binomial(total_count, probs).sample(): the values of
\* nonzero probability
BinomialSupport(total_count, probs) ==
    IF RIsOne(probs) THEN {total_count}
    ELSE IF probs[1] = 0 THEN {0}
    ELSE 0..total_count

\* Binomial(total_count=1, probs=0.5).sample(shape) * 2 - 1 over the index set S
SignDraws(S) == [S -> {-1, 1}]

(***************************************************************************)
(* sample_without_replacement(n_population, n_samples, random_state): the  *)
(* sets of column indices (0-based) a call can return.  With               *)
(* random_state None the numpy global generator is used: any n_samples     *)
(* distinct indices.  With a seed, every call builds its own generator     *)
(* from the seed, so the result is one fixed function of the arguments.    *)
(***************************************************************************)
sample_without_replacement(n_population, n_samples, rs) ==
    IF rs = <<>>
    THEN {S \in SUBSET (0..(n_population - 1)) : Cardinality(S) = n_samples}
    ELSE {{(rs[1] + j) % n_population : j \in 0..(n_samples - 1)}}

\* Faulty variant: components[:, c_idx] = data
AssignAllRows(m, i, data) ==
    [m EXCEPT !.entries =
        [r \in 1..Len(@) |->
            [c \in 1..m.cols |-> IF (c - 1) \in DOMAIN data THEN data[c - 1] ELSE @[r][c]]]]

\* components[i, c_idx] = data
AssignRow(m, i, data) ==
    [m EXCEPT !.entries[i] =
        [c \in 1..m.cols |-> IF (c - 1) \in DOMAIN data THEN data[c - 1] ELSE @[c]]]

(***************************************************************************)
(* The projector's lifecycle.  A tensor object is kept as its shape and    *)
(* its construction progress: `built` rows of `rows` filled, and whether   *)
(* the scaling of line 97 is done.  n_features is the argument of the      *)
(* _sparse_random_matrix call that made it.                                *)
(***************************************************************************)
None == [is_none |-> TRUE, id |-> 0]
Ref(id) == [is_none |-> FALSE, id |-> id]

Tensor(rows, cols, built, scaled) ==
    [rows |-> rows, cols |-> cols, built |-> built, scaled |-> scaled, n_features |-> cols]

Complete(t) == t.built = t.rows /\ t.scaled

NoOutcome == [call |-> "none", raised |-> "", shape |-> <<>>]
Raise(call, error) == [call |-> call, raised |-> error, shape |-> <<>>]
NoUse == [id |-> 0, complete |-> TRUE, stored |-> 0, during_fit |-> FALSE]
CallIdle == [pc |-> "idle", arg |-> <<>>, components |-> 0]

\* __init__, lines 51-55: the two annotations of lines 52-53 bind nothing
LifeIdle ==
    /\ sparse_random_matrix = <<>>
    /\ tensors = <<>>
    /\ allocated = 0
    /\ stored = 0
    /\ embedding = <<1, 1>>
    /\ outcome = NoOutcome
    /\ used = NoUse
    /\ fit_call = CallIdle
    /\ transform_call = CallIdle

(***************************************************************************)
(* _sparse_random_matrix(n_features), lines 57-99, step by step.           *)
(***************************************************************************)
GenIdle ==
    [pc |-> "idle", n_features |-> 0, i |-> 0, components |-> Zeros(0, 0),
     branch |-> "", nnz |-> <<>>, sampled |-> 0, raised |-> ""]

SelfComponents == n_components[1].val

\* the caller invokes the method
GenCall(nf, calls) ==
    /\ gen.pc = "idle"
    /\ gen.raised = ""
    /\ Len(generated) < calls
    /\ gen' = [GenIdle EXCEPT !.pc = "density", !.n_features = nf]
    /\ UNCHANGED <<config, n_components, estimates, generated, life>>

\* lines 71-75: density == 1, the matrix is drawn whole
GenDense ==
    /\ gen.pc = "density"
    /\ RIsOne(Density(gen.n_features))
    /\ \E draws \in [(1..SelfComponents) \X (1..gen.n_features) -> {-1, 1}] :
          gen' = [gen EXCEPT
                    !.pc = "return",
                    !.branch = "dense",
                    !.components =
                        [entries |-> [r \in 1..SelfComponents |->
                                        [c \in 1..gen.n_features |-> draws[<<r, c>>]]],
                         cols |-> gen.n_features,
                         scale |-> DenseScale(SelfComponents)]]
    /\ UNCHANGED <<config, n_components, estimates, generated, life>>

\* lines 77-79: the matrix starts as zeros
GenZeros ==
    /\ gen.pc = "density"
    /\ ~RIsOne(Density(gen.n_features))
    /\ gen' = [gen EXCEPT !.pc = "rows", !.i = 0, !.branch = "sparse",
                          !.components = Zeros(SelfComponents, gen.n_features)]
    /\ UNCHANGED <<config, n_components, estimates, generated, life>>

\* lines 80-95: one pass of the loop, for row i (0-based)
GenRow ==
    /\ gen.pc = "rows"
    /\ gen.i < SelfComponents
    /\ RUnitInterval(Density(gen.n_features))
    /\ \E k \in BinomialSupport(gen.n_features, Density(gen.n_features)) :
       \E c_idx \in sample_without_replacement(gen.n_features, k, random_state) :
       \E data \in SignDraws(c_idx) :
          gen' = [gen EXCEPT
                    !.i = @ + 1,
                    !.nnz = Append(@, k),
                    !.sampled = @ + 1,
                    !.components = AssignRow(@, gen.i + 1, data)]
    /\ UNCHANGED <<config, n_components, estimates, generated, life>>

\* line 82: Binomial rejects a probability outside [0, 1]
GenRowRaises ==
    /\ gen.pc = "rows"
    /\ gen.i < SelfComponents
    /\ ~RUnitInterval(Density(gen.n_features))
    /\ gen' = [gen EXCEPT !.pc = "idle", !.raised = "ValueError"]
    /\ UNCHANGED <<config, n_components, estimates, generated, life>>

\* line 97: the loop is over, the matrix is scaled in place
GenScale ==
    /\ gen.pc = "rows"
    /\ gen.i >= SelfComponents
    /\ gen' = [gen EXCEPT
                 !.pc = "return",
                 !.components.scale =
                     RMul(@, SparseScale(Density(gen.n_features), SelfComponents))]
    /\ UNCHANGED <<config, n_components, estimates, generated, life>>

\* line 99
GenReturn ==
    /\ gen.pc = "return"
    /\ generated' = Append(generated, gen.components)
    /\ gen' = [gen EXCEPT !.pc = "idle"]
    /\ UNCHANGED <<config, n_components, estimates, life>>

GenSteps == GenDense \/ GenZeros \/ GenRow \/ GenRowRaises \/ GenScale \/ GenReturn

InitGen ==
    /\ eps \in {Tenths(5)}
    /\ random_state \in RandomStates
    /\ n_components \in {<<Exact(c)>> : c \in 0..MaxComponents}
    /\ estimates = <<>>
    /\ gen = GenIdle
    /\ generated = <<>>
    /\ LifeIdle

\* one call, of any n_features
NextGen == (\E nf \in 0..MaxFeatures : GenCall(nf, 1)) \/ GenSteps

SpecGen == InitGen /\ [][NextGen]_vars

\* two calls on one projector
NextDet == (\E nf \in 0..MaxFeatures : GenCall(nf, 2)) \/ GenSteps

SpecDet == InitGen /\ [][NextDet]_vars


\* torch.rand(n, f), or a tensor that is not two-dimensional (docstring, line 37)
Embeddings ==
    {<<n, f>> : n \in SampleCounts, f \in 0..MaxFeatures} \cup {<<f>> : f \in 1..MaxFeatures}

\* the identity the next tensor object gets
NewId == allocated + 1

\* the store with the objects `keep` (a set of identities) only
Live(store, keep) == [id \in (DOMAIN store) \cap keep |-> store[id]]

\* the objects self.sparse_random_matrix refers to
Published(m) == IF m = <<>> \/ m[1].is_none THEN {} ELSE {m[1].id}

Fitted == sparse_random_matrix # <<>> /\ ~sparse_random_matrix[1].is_none
Matrix == tensors[sparse_random_matrix[1].id]

(***************************************************************************)
(* _sparse_random_matrix(n_features) at the level of shapes.               *)
(* GenStart: lines 69-79, up to the loop.  A row count that is negative    *)
(* (INT64_MIN) or beyond memory (INT64_MAX) makes the allocation raise; an *)
(* INT64_MAX-by-0 matrix is empty, its first loop pass raises (line 82).   *)
(***************************************************************************)
GenStart(nc, nf) ==
    IF RIsOne(Density(nf))
    THEN IF nc.kind = "exact" THEN "dense" ELSE "RuntimeError"
    ELSE IF nc.kind = "exact" THEN "zeros"
    ELSE IF nc.kind = "INT64_MAX" /\ nf = 0 THEN "ValueError"
    ELSE "RuntimeError"

\* line 82: a loop pass raises when the density is no probability
RowRaises(nf) == ~RUnitInterval(Density(nf))

\* how the whole call ends: "ok", or the error it raises
GenEnds(nc, nf) ==
    LET s == GenStart(nc, nf)
    IN  IF s = "dense" THEN "ok"
        ELSE IF s = "zeros" THEN (IF nc.val > 0 /\ RowRaises(nf) THEN "ValueError" ELSE "ok")
        ELSE s

(***************************************************************************)
(* embedding @ self.sparse_random_matrix.T.float(), line 159: the shape of *)
(* the product of a tensor of shape e with the transpose of t, or the      *)
(* error.  A one-dimensional e is a vector-matrix product.                 *)
(***************************************************************************)
Matmul(e, t) ==
    IF e[Len(e)] # t.cols
    THEN [raised |-> "RuntimeError", shape |-> <<>>]
    ELSE [raised |-> "", shape |-> SubSeq(e, 1, Len(e) - 1) \o <<t.rows>>]

\* Faulty variant: a fit that keeps the matrix of an earlier fit
FitKeeps(e) ==
    /\ allocated < MaxFits
    /\ Len(e) = 2
    /\ embedding' = e
    /\ \E nc \in _johnson_lindenstrauss_min_dim(e[1], eps) :
          /\ n_components' = <<nc>>
          /\ GenEnds(nc, e[2]) = "ok"
          /\ IF sparse_random_matrix = <<>>
             THEN /\ allocated' = NewId
                  /\ tensors' = NewId :> Tensor(nc.val, e[2], nc.val, TRUE)
                  /\ sparse_random_matrix' = <<Ref(NewId)>>
             ELSE UNCHANGED <<sparse_random_matrix, tensors, allocated>>
    /\ stored' = stored + 1
    /\ outcome' = [call |-> "fit", raised |-> "", shape |-> <<>>]
    /\ UNCHANGED <<config, estimates, gens, used, fit_call, transform_call>>

(***************************************************************************)
(* fit(embedding), lines 114-137, as one step.                             *)
(***************************************************************************)
Fit(e) ==
    /\ allocated < MaxFits
    /\ embedding' = e
    /\ IF Len(e) # 2
       THEN \* line 126: the shape does not unpack into two names
            /\ outcome' = Raise("fit", "ValueError")
            /\ UNCHANGED <<n_components, sparse_random_matrix, tensors, allocated, stored>>
       ELSE \E nc \in _johnson_lindenstrauss_min_dim(e[1], eps) :
            \* line 129
            /\ n_components' = <<nc>>
            \* line 135
            /\ IF GenEnds(nc, e[2]) = "ok"
               THEN /\ allocated' = NewId
                    /\ tensors' = NewId :> Tensor(nc.val, e[2], nc.val, TRUE)
                    /\ sparse_random_matrix' = <<Ref(NewId)>>
                    /\ stored' = stored + 1
                    /\ outcome' = [call |-> "fit", raised |-> "", shape |-> <<>>]
               ELSE /\ outcome' = Raise("fit", GenEnds(nc, e[2]))
                    /\ UNCHANGED <<sparse_random_matrix, tensors, allocated, stored>>
    /\ UNCHANGED <<config, estimates, gens, used, fit_call, transform_call>>

\* Faulty variant: a transform that keeps the transposed matrix in the attribute
TransformStoresTranspose(e) ==
    /\ Fitted
    /\ embedding' = e
    /\ outcome' = [call |-> "transform",
                   raised |-> Matmul(e, Matrix).raised,
                   shape |-> Matmul(e, Matrix).shape]
    /\ used' = [id |-> sparse_random_matrix[1].id, complete |-> Complete(Matrix),
                stored |-> stored, during_fit |-> fit_call.pc # "idle"]
    /\ tensors' = [tensors EXCEPT ![sparse_random_matrix[1].id] =
                      Tensor(Matrix.cols, Matrix.rows, Matrix.cols, TRUE)]
    /\ UNCHANGED <<config, n_components, estimates, gens, sparse_random_matrix,
                   allocated, stored, fit_call, transform_call>>

(***************************************************************************)
(* transform(embedding), lines 139-159, as one step.                       *)
(***************************************************************************)
Transform(e) ==
    /\ embedding' = e
    /\ IF sparse_random_matrix = <<>>
       THEN \* line 155: the attribute was never bound
            /\ outcome' = Raise("transform", "AttributeError")
            /\ used' = used
       ELSE IF sparse_random_matrix[1].is_none
       THEN \* lines 155-157
            /\ outcome' = Raise("transform", "NotFittedError")
            /\ used' = used
       ELSE \* line 159
            /\ outcome' = [call |-> "transform",
                           raised |-> Matmul(e, Matrix).raised,
                           shape |-> Matmul(e, Matrix).shape]
            /\ used' = [id |-> sparse_random_matrix[1].id, complete |-> Complete(Matrix),
                        stored |-> stored, during_fit |-> fit_call.pc # "idle"]
    /\ UNCHANGED <<config, n_components, estimates, gens, sparse_random_matrix, tensors,
                   allocated, stored, fit_call, transform_call>>

InitLife ==
    /\ eps \in EpsSet
    /\ random_state \in RandomStates
    /\ n_components = <<>>
    /\ estimates = <<>>
    /\ gen = GenIdle
    /\ generated = <<>>
    /\ LifeIdle

Next == \E e \in Embeddings : Fit(e) \/ Transform(e)

Spec == InitLife /\ [][Next]_vars

(***************************************************************************)
(* SpecConc: a fit call and a transform call on one projector, each in     *)
(* its own thread, interleaved statement by statement.  The steps of fit   *)
(* are the steps of Fit, and those of transform the steps of Transform.    *)
(***************************************************************************)
\* lines 126-129
FitBegin(e) ==
    /\ fit_call.pc = "idle"
    /\ allocated < MaxFits
    /\ IF Len(e) # 2
       THEN /\ outcome' = Raise("fit", "ValueError")
            /\ UNCHANGED <<n_components, fit_call>>
       ELSE \E nc \in _johnson_lindenstrauss_min_dim(e[1], eps) :
            /\ n_components' = <<nc>>
            /\ fit_call' = [pc |-> "generate", arg |-> e, components |-> 0]
            /\ UNCHANGED outcome
    /\ UNCHANGED <<config, estimates, gens, sparse_random_matrix, tensors, allocated,
                   stored, embedding, used, transform_call>>

\* Faulty variant: the zeros are assigned to the attribute and filled in place
FitGeneratePublishes ==
    /\ fit_call.pc = "generate"
    /\ GenStart(n_components[1], fit_call.arg[2]) = "zeros"
    /\ allocated' = NewId
    /\ tensors' = tensors @@ (NewId :> Tensor(n_components[1].val, fit_call.arg[2], 0, FALSE))
    /\ sparse_random_matrix' = <<Ref(NewId)>>
    /\ fit_call' = [fit_call EXCEPT !.pc = "rows", !.components = NewId]
    /\ UNCHANGED <<config, n_components, estimates, gens, stored, embedding, outcome, used,
                   transform_call>>

\* lines 69-79 of the _sparse_random_matrix call of line 135: the local
\* tensor `components` is made, whole (dense) or as zeros
FitGenerate ==
    /\ fit_call.pc = "generate"
    /\ LET nc == n_components[1]
           nf == fit_call.arg[2]
           s == GenStart(nc, nf)
       IN  IF s \notin {"dense", "zeros"}
           THEN /\ outcome' = Raise("fit", s)
                /\ fit_call' = CallIdle
                /\ UNCHANGED <<tensors, allocated>>
           ELSE /\ allocated' = NewId
                /\ tensors' = tensors @@
                       (NewId :> Tensor(nc.val, nf, IF s = "dense" THEN nc.val ELSE 0,
                                        s = "dense"))
                /\ fit_call' = [fit_call EXCEPT !.pc = IF s = "dense" THEN "store" ELSE "rows",
                                               !.components = NewId]
                /\ UNCHANGED outcome
    /\ UNCHANGED <<config, n_components, estimates, gens, sparse_random_matrix, stored,
                   embedding, used, transform_call>>

\* lines 80-95: one pass of the loop
FitRow ==
    /\ fit_call.pc = "rows"
    /\ tensors[fit_call.components].built < tensors[fit_call.components].rows
    /\ IF RowRaises(fit_call.arg[2])
       THEN /\ outcome' = Raise("fit", "ValueError")
            /\ fit_call' = CallIdle
            /\ tensors' = Live(tensors, Published(sparse_random_matrix))
       ELSE /\ tensors' = [tensors EXCEPT ![fit_call.components].built = @ + 1]
            /\ UNCHANGED <<outcome, fit_call>>
    /\ UNCHANGED <<config, n_components, estimates, gens, sparse_random_matrix, allocated,
                   stored, embedding, used, transform_call>>

\* line 97
FitScale ==
    /\ fit_call.pc = "rows"
    /\ tensors[fit_call.components].built >= tensors[fit_call.components].rows
    /\ tensors' = [tensors EXCEPT ![fit_call.components].scaled = TRUE]
    /\ fit_call' = [fit_call EXCEPT !.pc = "store"]
    /\ UNCHANGED <<config, n_components, estimates, gens, sparse_random_matrix, allocated,
                   stored, embedding, outcome, used, transform_call>>

\* lines 135-137: the assignment to the attribute, and the return
FitStore ==
    /\ fit_call.pc = "store"
    /\ sparse_random_matrix' = <<Ref(fit_call.components)>>
    /\ tensors' = Live(tensors, {fit_call.components})
    /\ stored' = stored + 1
    /\ outcome' = [call |-> "fit", raised |-> "", shape |-> <<>>]
    /\ fit_call' = CallIdle
    /\ UNCHANGED <<config, n_components, estimates, gens, allocated, embedding, used,
                   transform_call>>

\* lines 155-157
TransformCheck(e) ==
    /\ transform_call.pc = "idle"
    /\ IF sparse_random_matrix = <<>>
       THEN /\ outcome' = Raise("transform", "AttributeError")
            /\ UNCHANGED transform_call
       ELSE IF sparse_random_matrix[1].is_none
       THEN /\ outcome' = Raise("transform", "NotFittedError")
            /\ UNCHANGED transform_call
       ELSE /\ transform_call' = [pc |-> "matmul", arg |-> e, components |-> 0]
            /\ UNCHANGED outcome
    /\ UNCHANGED <<config, n_components, estimates, gens, sparse_random_matrix, tensors,
                   allocated, stored, embedding, used, fit_call>>

\* line 159: the attribute is read again
TransformMatmul ==
    /\ transform_call.pc = "matmul"
    /\ outcome' = [call |-> "transform",
                   raised |-> Matmul(transform_call.arg, Matrix).raised,
                   shape |-> Matmul(transform_call.arg, Matrix).shape]
    /\ used' = [id |-> sparse_random_matrix[1].id, complete |-> Complete(Matrix),
                stored |-> stored, during_fit |-> fit_call.pc # "idle"]
    /\ transform_call' = CallIdle
    /\ UNCHANGED <<config, n_components, estimates, gens, sparse_random_matrix, tensors,
                   allocated, stored, embedding, fit_call>>

InitConc ==
    /\ eps \in {Tenths(9)}
    /\ random_state = <<>>
    /\ n_components = <<>>
    /\ estimates = <<>>
    /\ gen = GenIdle
    /\ generated = <<>>
    /\ LifeIdle

NextConc ==
    \/ \E e \in Embeddings : FitBegin(e) \/ TransformCheck(e)
    \/ FitGenerate \/ FitRow \/ FitScale \/ FitStore
    \/ TransformMatmul

SpecConc == InitConc /\ [][NextConc]_vars

(***************************************************************************)
(* SpecJL: calls of the static method on arguments drawn from the grid.    *)
(***************************************************************************)
InitJL ==
    /\ eps \in EpsSet
    /\ random_state = <<>>
    /\ n_components = <<>>
    /\ estimates = <<>>
    /\ gen = GenIdle
    /\ generated = <<>>
    /\ LifeIdle

Estimate(n, e) ==
    /\ Len(estimates) < MaxEstimates
    /\ \E r \in _johnson_lindenstrauss_min_dim(n, e) :
          estimates' = Append(estimates, [n_samples |-> n, eps |-> e, dim |-> r])
    /\ UNCHANGED <<config, n_components, gens, life>>

NextJL == \E n \in SampleCounts, e \in EpsGrid : Estimate(n, e)

SpecJL == InitJL /\ [][NextJL]_vars


(***************************************************************************)
(* Claims.                                                                 *)
(***************************************************************************)

\* C1 (Spec): a transform on a projector no fit has completed on fails with
\* NotFittedError, and returns no projected result.
C1_UnfittedTransformRaisesNotFitted ==
    (outcome.call = "transform" /\ ~Fitted)
        => (outcome.raised = "NotFittedError" /\ outcome.shape = <<>>)

\* C2 (Spec): the projector starts unfitted; a fitted projector stays fitted;
\* only a fit that returns changes the stored matrix, and it stores a complete
\* tensor object that did not exist before, made for the new embedding, the
\* earlier one being dropped; a transform never changes the fitted status.
C2_FitIsTheOnlyTransition ==
    /\ ~Fitted
    /\ [][/\ Fitted => Fitted'
          /\ sparse_random_matrix' # sparse_random_matrix
                => (outcome'.call = "fit" /\ outcome'.raised = "" /\ stored' = stored + 1)
          /\ \A e \in Embeddings :
                (Fit(e) /\ outcome'.raised = "")
                    => /\ Fitted'
                       /\ sparse_random_matrix'[1].id > allocated
                       /\ DOMAIN tensors' = {sparse_random_matrix'[1].id}
                       /\ Complete(Matrix')
                       /\ Matrix'.cols = e[2]
          /\ \A e \in Embeddings : Transform(e) => (Fitted' <=> Fitted)
         ]_vars

C2_Refitted ==
    /\ Fitted
    /\ outcome.call = "fit"
    /\ outcome.raised = ""
    /\ stored = 2
    /\ sparse_random_matrix[1].id = 2
    /\ Matrix.rows > 0

\* C3 (Spec): whenever the projector holds a matrix, its row count is the
\* current n_components and its column count the n_features of the embedding
\* of the fit that made it.
C3_MatrixShapeMatchesNComponents ==
    Fitted => (n_components = <<Exact(Matrix.rows)>> /\ Matrix.cols = Matrix.n_features)

\* C4 (Spec): on a fitted projector, a transform of an (n_samples, n_features)
\* embedding whose n_features is the matrix's column count returns a result of
\* shape (n_samples, n_components).
C4_TransformShape ==
    (/\ outcome.call = "transform"
     /\ Fitted
     /\ Len(embedding) = 2
     /\ embedding[2] = Matrix.cols)
        => (/\ outcome.raised = ""
            /\ n_components[1].kind = "exact"
            /\ outcome.shape = <<embedding[1], n_components[1].val>>)

\* C5 (Spec): a transform call, returning or raising, leaves the stored matrix,
\* n_components, eps, random_state and the fitted status as they were, and the
\* embedding it was passed unmodified.
C5_TransformChangesNothing ==
    [][\A e \in Embeddings :
          Transform(e) =>
              /\ sparse_random_matrix' = sparse_random_matrix
              /\ tensors' = tensors
              /\ n_components' = n_components
              /\ eps' = eps
              /\ random_state' = random_state
              /\ (Fitted' <=> Fitted)
              /\ embedding' = e
      ]_vars

C5_Transformed ==
    outcome.call = "transform" /\ outcome.raised = "" /\ Fitted /\ Matrix.rows > 0

\* C6 (SpecDet): two matrix generations with one seeded random_state, one
\* n_components and one n_features give identical matrices.
C6_SeededGenerationsAgree ==
    (/\ Len(generated) = 2
     /\ random_state # <<>>
     /\ generated[1].cols = generated[2].cols)
        => generated[1] = generated[2]

\* C8 (SpecGen): the dense branch is taken exactly when n_features = 1; in it
\* no index sampling happens and every entry is +1 or -1 times
\* 1/sqrt(n_components); with n_features >= 2 the sparse branch is taken.
C8_DenseBranch ==
    /\ gen.branch # "" => (gen.branch = "dense" <=> gen.n_features = 1)
    /\ (gen.branch # "" /\ gen.n_features >= 2) => gen.branch = "sparse"
    /\ gen.branch = "dense" =>
          /\ gen.sampled = 0
          /\ Len(gen.components.entries) = SelfComponents
          /\ \A r \in 1..SelfComponents : \A c \in 1..gen.n_features :
                gen.components.entries[r][c] \in {-1, 1}
          /\ REq(gen.components.scale, <<1, SelfComponents * SelfComponents>>)
          /\ \A k \in 1..Len(generated) : generated[k] = gen.components

C8_DenseReturned ==
    gen.branch = "dense" /\ Len(generated) = 1 /\ Len(generated[1].entries) = 2

\* C9 (SpecGen): in the sparse branch with n_features >= 2, every row built has
\* exactly as many nonzero columns as the count k drawn for it (0 <= k <=
\* n_features), each +1 or -1 times the factor, the other columns zero; the
\* factor of the finished matrix is sqrt(1/density)/sqrt(n_components) with
\* density = 1/sqrt(n_features); and building a row changes no other row.
NonZeroColumns(row) == {c \in 1..Len(row) : row[c] # 0}

C9_RowsBuilt ==
    (gen.branch = "sparse" /\ gen.n_features >= 2) =>
        /\ Len(gen.nnz) = gen.i
        /\ \A r \in 1..Len(gen.components.entries) :
              /\ \A c \in 1..gen.n_features : gen.components.entries[r][c] \in {-1, 0, 1}
              /\ r <= gen.i =>
                    /\ gen.nnz[r] \in 0..gen.n_features
                    /\ Cardinality(NonZeroColumns(gen.components.entries[r])) = gen.nnz[r]
              /\ r > gen.i => NonZeroColumns(gen.components.entries[r]) = {}
        /\ gen.pc \in {"return", "idle"} =>
              /\ gen.i = SelfComponents
              /\ REq(gen.components.scale,
                     <<gen.n_features, SelfComponents * SelfComponents>>)
              /\ \A k \in 1..Len(generated) : generated[k] = gen.components

C9_SparseRows ==
    /\ []C9_RowsBuilt
    /\ [][(gen.pc = "rows" /\ gen'.i = gen.i + 1) =>
             \A r \in 1..Len(gen.components.entries) :
                 r # gen.i + 1 => gen'.components.entries[r] = gen.components.entries[r]
         ]_vars

C9_SparseReturned ==
    /\ gen.branch = "sparse"
    /\ gen.n_features = 3
    /\ Len(generated) = 1
    /\ gen.nnz = <<1, 2>>

\* C10 (SpecConc): a transform never multiplies with a tensor under
\* construction: the tensor it reads from the attribute is complete and was
\* stored by a fit; fit builds its tensor apart from the attribute and stores
\* it in one assignment; before any fit has stored a matrix a transform raises.
C10_NoPartialMatrix ==
    /\ used.complete
    /\ used.id # 0 => used.stored >= 1
    /\ Fitted => Complete(Matrix)
    /\ transform_call.pc = "matmul" => (Fitted /\ stored >= 1)
    /\ fit_call.pc \in {"rows", "store"}
          => fit_call.components \notin Published(sparse_random_matrix)
    /\ (outcome.call = "transform" /\ stored = 0) => outcome.raised = "AttributeError"

C10_TransformDuringFit ==
    /\ outcome.call = "transform"
    /\ outcome.raised = ""
    /\ used.during_fit
    /\ fit_call.pc = "rows"
    /\ used.id # fit_call.components
    /\ tensors[fit_call.components].built > 0
    /\ tensors[fit_call.components].built < tensors[fit_call.components].rows
    /\ Matrix.rows > 0

\* C7 (SpecJL): for n_samples >= 2 and eps in (0,1) the estimated dimension is
\* at least 1, and for one n_samples a smaller eps never gives a smaller
\* dimension.
C7_MinDimPositiveMonotone ==
    \A i \in 1..Len(estimates) :
        estimates[i].n_samples >= 2 =>
            /\ IntLeq(Exact(1), estimates[i].dim)
            /\ \A j \in 1..Len(estimates) :
                  (/\ estimates[j].n_samples = estimates[i].n_samples
                   /\ ~FLess(estimates[j].eps, estimates[i].eps))
                  => IntLeq(estimates[j].dim, estimates[i].dim)

====
